---- MODULE Spec2Model ----
(***************************************************************************)
(* Two front-ends of a symptom-to-disease chat assistant:                  *)
(*   src/src/app_gradio.py     (callbacks on_test, on_clear, on_send)      *)
(*   src/src/app_streamlit.py  (one script, re-executed on every event)    *)
(* Both call an external service with GET /health and POST /predict.       *)
(*                                                                         *)
(* Text is a sequence of tokens.  A token is one character (" ", "/",      *)
(* "a") or one literal chunk of a Python f-string.  Accents are dropped    *)
(* and the em-dash U+2014 is written "<em-dash>", the ellipsis U+2026      *)
(* "<ellipsis>" and the backquote "<bt>", because of what a module's       *)
(* strings may hold.                                                       *)
(* An optional value (Python None, an absent dict key) is a sequence of    *)
(* length 0, a present one a sequence of length 1.                         *)
(***************************************************************************)
EXTENDS Naturals, Sequences, FiniteSets, TLC

VARIABLES
  ui,              \* which front-end runs: "gradio", "streamlit", or "pair" (both, side by side)
  g_chatbot,       \* gradio: the Chatbot component's value (list of (user, assistant) pairs)
  g_history_state, \* gradio: gr.State history
  g_last_raw,      \* gradio: the JSON component "Derniere reponse brute"
  g_details,       \* gradio: the details HTML component (the data it was built from)
  g_status,        \* gradio: the status shown by hero and status_box: [ok, msg]
  g_ev,            \* gradio: the last callback: its inputs, the request it issued, whether it raised
  s_messages,      \* streamlit: st.session_state.messages
  s_last_raw,      \* streamlit: st.session_state.last_raw (absent = <<>>)
  s_status,        \* streamlit: (ok, status_msg) shown by the last script run
  s_ev             \* streamlit: the last user event, as g_ev

g_vars == <<g_chatbot, g_history_state, g_last_raw, g_details, g_status, g_ev>>
s_vars == <<s_messages, s_last_raw, s_status, s_ev>>
vars == <<ui, g_vars, s_vars>>

\* Sends per session explored.
MaxSends == 2

(***************************************************************************)
(* Text helpers (Python str methods used by the code)                      *)
(***************************************************************************)
WS == " "
SLASH == "/"
EmDash == <<"<em-dash>">>
Ellipsis == <<"<ellipsis>">>

RECURSIVE lstrip(_)
lstrip(s) == IF s # <<>> /\ Head(s) = WS THEN lstrip(Tail(s)) ELSE s

RECURSIVE rstrip_ws(_)
rstrip_ws(s) ==
  IF s # <<>> /\ s[Len(s)] = WS THEN rstrip_ws(SubSeq(s, 1, Len(s) - 1)) ELSE s

\* str.strip()
strip(s) == rstrip_ws(lstrip(s))

\* str.rstrip("/")
RECURSIVE rstrip_slash(_)
rstrip_slash(s) ==
  IF s # <<>> /\ s[Len(s)] = SLASH THEN rstrip_slash(SubSeq(s, 1, Len(s) - 1)) ELSE s

\* sep.join(items), items a sequence of texts
RECURSIVE join(_, _)
join(sep, items) ==
  IF items = <<>> THEN <<>>
  ELSE IF Len(items) = 1 THEN items[1]
  ELSE items[1] \o sep \o join(sep, Tail(items))

(***************************************************************************)
(* Inputs: what the user types and sets                                    *)
(***************************************************************************)
DEFAULT_URL == <<"http://localhost:8000">>

\* URL textbox values: the default, the default with a leading blank and a
\* trailing slash, and empty.
Urls == {DEFAULT_URL, <<WS>> \o DEFAULT_URL \o <<SLASH>>, <<>>}

\* Top-K slider: 1..5, default 3.
TOP_K_MAX == 5
TOP_K_DEFAULT == 3
\* A slider value: the number n and the Python type that carries it.
TopKDefault == [n |-> TOP_K_DEFAULT, float |-> FALSE]
\* streamlit's slider, given int bounds, returns an int.
TopKInts == {[n |-> k, float |-> FALSE] : k \in {TOP_K_DEFAULT, TOP_K_MAX}}
\* gradio hands the callback the number the browser sent, an int or a float.
TopKGradio == {[n |-> TOP_K_DEFAULT, float |-> FALSE], [n |-> TOP_K_MAX, float |-> TRUE]}

\* Submitted texts: a word between blanks, only a blank, empty.
Texts == {<<WS, "a", WS>>, <<WS>>, <<>>}

(***************************************************************************)
(* The backend, as seen through the requests library                       *)
(***************************************************************************)
\* JSON values of a /predict body.  found_symptoms: key absent, null, or a list.
Null == [t |-> "null", v |-> <<>>]
Absent == [t |-> "absent", v |-> <<>>]
List(items) == [t |-> "list", v |-> items]

\* A body is a JSON object with the fields below, or (dict = FALSE) a JSON
\* array.  The other keys of the contract (predictions, specialist,
\* precautions, typical_symptoms) only feed the details panel and the chart.
Body(p, f) == [dict |-> TRUE, primary_disease |-> p, found_symptoms |-> f]
NotADict == [dict |-> FALSE, primary_disease |-> <<>>, found_symptoms |-> Absent]

ValidBodies ==
  { Body(<<<<"Flu">>>>, List(<< <<"cough">>, <<"fever">> >>)),
    Body(<<<<"Cold">>>>, List(<<>>)),
    Body(<<<<"Cold">>>>, Null) }
Bodies == ValidBodies \cup {NotADict}

\* What one HTTP call does: requests raises exception exc (with text msg), or
\* returns a response with a status code and, for /predict, a body.
Raises(name, msg) == [exc |-> <<name>>, msg |-> msg, status |-> 0, body |-> NotADict]
Response(code, b) == [exc |-> <<>>, msg |-> <<>>, status |-> code, body |-> b]

\* ping's test: r.status_code == 200
HTTP_OK == 200
\* The error status the backend answers with when it is up but failing.
ErrorStatuses == {503}
\* str(status_code)
CodeText(c) == IF c = HTTP_OK THEN "200" ELSE IF c = 503 THEN "503" ELSE "<code>"

ConnectionError == Raises("ConnectionError", <<"connection refused">>)
Timeout == Raises("Timeout", <<"read timed out">>)
MissingSchema == Raises("MissingSchema", <<"no scheme supplied">>)

\* A request URL names a host when, leading blanks aside, it starts with
\* scheme and host; for any other (such as "/predict") requests raises
\* MissingSchema before anything is sent.
HasHost(url) == lstrip(url) # <<>> /\ Head(lstrip(url)) = Head(DEFAULT_URL)

HealthOutcomes(url) ==
  IF HasHost(url)
  THEN {Response(HTTP_OK, NotADict), ConnectionError}
         \cup {Response(c, NotADict) : c \in ErrorStatuses}
  ELSE {MissingSchema}

PredictOutcomes(url) ==
  IF HasHost(url)
  THEN {Response(HTTP_OK, b) : b \in Bodies}
         \cup {Response(c, NotADict) : c \in ErrorStatuses}
         \cup {ConnectionError, Timeout}
  ELSE {MissingSchema}

\* Response.raise_for_status(): HTTPError for 4xx and 5xx.
raise_for_status(r) ==
  IF r.status >= 400 /\ r.status < 600
  THEN Raises("HTTPError", <<CodeText(r.status), " Server Error">>)
  ELSE r

\* Mutant of RequestExceptions: only the network's failures are caught.
RequestExceptionsNetwork == {"ConnectionError", "Timeout"}

\* The exceptions that `except requests.exceptions.RequestException` catches.
RequestExceptions == {"ConnectionError", "Timeout", "MissingSchema", "HTTPError"}

\* Mutant of Exceptions: ping catches connection errors only.
ExceptionsConnection == {"ConnectionError"}

\* The exceptions that ping's `except Exception` catches: every exception a
\* call can raise here.
Exceptions == RequestExceptions \cup {"AttributeError"}

\* An HTTP request as handed to requests.get / requests.post.
Request(method, url, payload, timeout) ==
  [method |-> method, url |-> url, json |-> payload, timeout |-> timeout]

\* The record of a user event: what was submitted and set (as far as the
\* handler's effect depends on it), what the backend answered (out: to the
\* /predict request, if one was issued; health: to the last /health call),
\* the exception that escaped the handler, and the /predict request issued.
Event(op, text, url, k, out, health, raised, req) ==
  [op |-> op, text |-> text, url |-> url, top_k |-> k, out |-> out,
   health |-> health, raised |-> raised, req |-> req]
NoEvent == Event("start", <<>>, <<>>, TopKDefault, <<>>, <<>>, <<>>, <<>>)

\* A status indicator.
Status(ok, msg) == [ok |-> ok, msg |-> msg]

(***************************************************************************)
(* app_gradio.py                                                           *)
(***************************************************************************)
\* _norm_base
norm_base(url) == rstrip_slash(strip(url))

\* Mutant of int: top_k goes into the payload as it came.
int_kept(k) == k

\* int(top_k)
int(k) == [n |-> k.n, float |-> FALSE]

\* ping(api_base) with the backend answering h: the (ok, msg) returned,
\* the request issued, the exception that escapes.
gr_ping(api_base, h) ==
  LET base == norm_base(api_base)
      req == Request("GET", base \o <<"/health">>, <<>>, 2)
      ret(ok, msg, rq, raised) ==
        [status |-> Status(ok, msg), req |-> rq, raised |-> raised]
  IN IF base = <<>>
     THEN ret(FALSE, <<"URL vide">>, <<>>, <<>>)
     ELSE IF h.exc # <<>>
          THEN IF h.exc[1] \in Exceptions
               THEN ret(FALSE, <<"Indisponible (", h.exc[1], ")">>, <<req>>, <<>>)
               ELSE ret(FALSE, <<>>, <<req>>, h.exc)
          ELSE IF h.status = HTTP_OK
               THEN ret(TRUE, <<"Connecte">>, <<req>>, <<>>)
               ELSE ret(FALSE, <<"Reponse backend: ", CodeText(h.status)>>, <<req>>, <<>>)

\* The URL post_predict posts to.
gr_predict_url(api_base) == norm_base(api_base) \o <<"/predict">>

\* post_predict(api_base, text, top_k) with the backend answering out:
\* the request, and either the exception raised or the parsed body.
gr_post_predict(api_base, text, top_k, out) ==
  LET payload == [text |-> text, top_k |-> int(top_k)]
      r == IF out.exc # <<>> THEN out ELSE raise_for_status(out)
  IN [req |-> Request("POST", gr_predict_url(api_base), <<payload>>, 20),
      exc |-> r.exc, msg |-> r.msg, data |-> r.body]

\* data.get("primary_disease", "<em-dash>")
get_primary(data) ==
  IF data.primary_disease = <<>> THEN EmDash ELSE data.primary_disease[1]

\* data.get("found_symptoms", []) or []
get_found(data) ==
  IF data.found_symptoms.t = "list" THEN data.found_symptoms.v ELSE <<>>

\* Mutant of found_str: no placeholder for an empty list.
found_str_bare(found) == join(<<", ">>, found)

\* ", ".join(found) if found else "<em-dash>"
found_str(found) == IF found # <<>> THEN join(<<", ">>, found) ELSE EmDash

\* The f-string of the result message (on_send line 174, the same text as
\* format_assistant_summary).
bot_msg(data) ==
  <<"**Resultat :** ">> \o get_primary(data)
     \o <<"\n\n**Symptomes detectes :** ">> \o found_str(get_found(data))

\* Mutant of gr_err: the message names the normalised URL and leaves the
\* error's text out.
gr_err_terse(api_url, e_msg) ==
  <<"Je n'arrive pas a contacter le service de prediction.\n\n", "- URL: <bt>">>
     \o rstrip_slash(strip(api_url))
     \o <<"<bt>\n\n", "Verifie que le backend tourne et que <bt>/health<bt> repond.">>

\* err: the f-string of the error message (on_send lines 183-188).
gr_err(api_url, e_msg) ==
  <<"Je n'arrive pas a contacter le service de prediction.\n\n", "- URL: <bt>">>
     \o api_url \o <<"<bt>\n", "- Detail: <bt>">> \o e_msg
     \o <<"<bt>\n\n", "Verifie que le backend tourne et que <bt>/health<bt> repond.">>

\* Mutant of set_last: the history is replaced by the pair.
set_last_only(history, pair) == <<pair>>

\* Mutant of set_last: the pair is appended and the placeholder stays.
set_last_appended(history, pair) == history \o <<pair>>

\* history[-1] = pair
set_last(history, pair) == SubSeq(history, 1, Len(history) - 1) \o <<pair>>

\* Mutant of optimistic: the new pair starts a new history.
optimistic_fresh(history, user_text) == <<<<user_text, Ellipsis>>>>

\* Optimistic UI: history + [(user_text, "<ellipsis>")]
optimistic(history, user_text) == history \o <<<<user_text, Ellipsis>>>>

\* on_send(user_text, api_url, top_k, history) with the backend answering
\* out.  raised: the exception that escapes (then nothing is returned).
on_send(user_text0, api_url, top_k, history0, out) ==
  LET user_text == strip(user_text0)
      history == optimistic(history0, user_text)
      p == gr_post_predict(api_url, user_text, top_k, out)
      ret(h, raw, det, req, raised) ==
        [user_text |-> <<>>, chatbot |-> h, history_state |-> h, last_raw |-> raw,
         details |-> det, req |-> req, raised |-> raised]
  IN IF user_text = <<>>
     THEN ret(history0, <<>>, <<>>, <<>>, <<>>)
     ELSE IF p.exc # <<>>
          THEN IF p.exc[1] \in RequestExceptions
               THEN ret(set_last(history, <<user_text, gr_err(api_url, p.msg)>>),
                        <<>>, <<>>, <<p.req>>, <<>>)
               ELSE ret(history0, <<>>, <<>>, <<p.req>>, p.exc)
          ELSE IF ~p.data.dict
               THEN ret(history0, <<>>, <<>>, <<p.req>>, <<"AttributeError">>)
               ELSE ret(set_last(history, <<user_text, bot_msg(p.data)>>),
                        <<p.data>>, <<p.data>>, <<p.req>>, <<>>)

\* Mutant of on_clear: the status is reset with the rest, without a ping.
on_clear_untested(api_url, top_k, h) ==
  [chatbot |-> <<>>, history_state |-> <<>>, last_raw |-> <<>>, details |-> <<>>,
   status |-> Status(FALSE, <<"Non teste">>), raised |-> <<>>]

\* on_clear(api_url, top_k) with the backend answering h
on_clear(api_url, top_k, h) ==
  LET p == gr_ping(api_url, h)
  IN [chatbot |-> <<>>, history_state |-> <<>>, last_raw |-> <<>>, details |-> <<>>,
      status |-> p.status, raised |-> p.raised]

\* on_test(api_url, top_k) with the backend answering h
on_test(api_url, top_k, h) ==
  LET p == gr_ping(api_url, h)
  IN [status |-> p.status, raised |-> p.raised]

\* The health answers possible for the URL the ping of gradio asks.
GrHealth(api_url) == HealthOutcomes(norm_base(api_url) \o <<"/health">>)
GrPredict(api_url) == PredictOutcomes(gr_predict_url(api_url))

GrInit ==
  /\ g_chatbot = <<>>
  /\ g_history_state = <<>>
  /\ g_last_raw = <<>>
  /\ g_details = <<>>
  /\ g_status = Status(FALSE, <<"Non teste">>)
  /\ g_ev = NoEvent

\* btn_send.click / user_text.submit
GrSend(text, url, k, out) ==
  LET r == on_send(text, url, k, g_history_state, out)
  IN /\ Len(g_history_state) < MaxSends
     /\ IF r.raised # <<>>
        THEN UNCHANGED <<g_chatbot, g_history_state, g_last_raw, g_details>>
        ELSE /\ g_chatbot' = r.chatbot
             /\ g_history_state' = r.history_state
             /\ g_last_raw' = r.last_raw
             /\ g_details' = r.details
     /\ g_ev' = Event("send", text, url, k, IF r.req = <<>> THEN <<>> ELSE <<out>>,
                      <<>>, r.raised, r.req)
     /\ UNCHANGED g_status

\* btn_clear.click
GrClear(url, k, h) ==
  LET r == on_clear(url, k, h)
  IN /\ IF r.raised # <<>>
        THEN UNCHANGED <<g_chatbot, g_history_state, g_last_raw, g_details, g_status>>
        ELSE /\ g_chatbot' = r.chatbot
             /\ g_history_state' = r.history_state
             /\ g_last_raw' = r.last_raw
             /\ g_details' = r.details
             /\ g_status' = r.status
     /\ g_ev' = Event("clear", <<>>, url, TopKDefault, <<>>, <<h>>, r.raised, <<>>)

\* btn_test.click
GrTest(url, k, h) ==
  LET r == on_test(url, k, h)
  IN /\ g_status' = IF r.raised # <<>> THEN g_status ELSE r.status
     /\ g_ev' = Event("test", <<>>, url, TopKDefault, <<>>, <<h>>, r.raised, <<>>)
     /\ UNCHANGED <<g_chatbot, g_history_state, g_last_raw, g_details>>

(***************************************************************************)
(* app_streamlit.py                                                        *)
(***************************************************************************)
\* ping(api_base) with the backend answering h: the (ok, msg) returned and
\* the exception that escapes.
st_ping(api_base, h) ==
  LET ret(ok, msg, raised) == [status |-> Status(ok, msg), raised |-> raised]
  IN IF h.exc # <<>>
     THEN IF h.exc[1] \in Exceptions
          THEN ret(FALSE, <<"Indisponible (", h.exc[1], ")">>, <<>>)
          ELSE ret(FALSE, <<>>, h.exc)
     ELSE IF h.status = HTTP_OK
          THEN ret(TRUE, <<"Connecte">>, <<>>)
          ELSE ret(FALSE, <<"Reponse backend: ", CodeText(h.status)>>, <<>>)

\* The URL post_predict posts to.
st_predict_url(api_base) == api_base \o <<"/predict">>

\* post_predict(api_base, text, top_k) with the backend answering out
st_post_predict(api_base, text, top_k, out) ==
  LET payload == [text |-> text, top_k |-> top_k]
      r == IF out.exc # <<>> THEN out ELSE raise_for_status(out)
  IN [req |-> Request("POST", st_predict_url(api_base), <<payload>>, 20),
      exc |-> r.exc, msg |-> r.msg, data |-> r.body]

\* format_assistant_summary(data)
format_assistant_summary(data) ==
  LET primary == IF data.primary_disease = <<>> THEN EmDash ELSE data.primary_disease[1]
      found == IF data.found_symptoms.t = "list" THEN data.found_symptoms.v ELSE <<>>
      found_s == IF found # <<>> THEN join(<<", ">>, found) ELSE EmDash
  IN <<"**Resultat :** ">> \o primary \o <<"\n\n**Symptomes detectes :** ">> \o found_s

\* The content of the error message (lines 320-325).
st_err(api_url, e_msg) ==
  <<"Je n'arrive pas a contacter le service de prediction.\n\n", "- URL: <bt>">>
     \o api_url \o <<"<bt>\n", "- Detail: <bt>">> \o e_msg
     \o <<"<bt>\n\n", "Verifie que le backend tourne et que <bt>/health<bt> repond.">>

\* An entry of st.session_state.messages.  details: the dict shown under an
\* assistant result (here its primary_disease and found_symptoms), or absent.
Message(role, content, details) == [role |-> role, content |-> content, details |-> details]

GREETING ==
  Message("assistant",
          <<"Salut ! Decris tes symptomes (ex: fievre, toux, fatigue). ",
            "Je te reponds avec une maladie probable, un specialiste conseille et des precautions.">>,
          <<>>)

\* The details dict of lines 301-310.
st_details(data) ==
  [primary_disease |-> IF data.primary_disease = <<>> THEN EmDash ELSE data.primary_disease[1],
   found_symptoms |-> IF data.found_symptoms.t = "list" THEN data.found_symptoms.v ELSE <<>>]

\* The widgets' values of one script run.
Widgets(clear, test_conn, user_text, api_url, top_k) ==
  [clear |-> clear, test_conn |-> test_conn, user_text |-> user_text,
   api_url |-> api_url, top_k |-> top_k]

\* Mutant of st_clear: last_raw is not popped.
st_clear_keeps_raw(ss) == [messages |-> <<>>, last_raw |-> ss.last_raw]

\* `if clear:` pops both keys of the session state.
st_clear(ss) == [messages |-> <<>>, last_raw |-> <<>>]

\* One execution of the script, top to bottom.  ss: the session state
\* [messages, last_raw], each absent (<<>>) or present.  w: the widgets.
\* h1, h2: the backend's answers to the two pings, out: to /predict.
\* Result: the session state, the status shown (absent when the run stops
\* before the sidebar shows it), whether the run ended in st.rerun(), the
\* exception that escaped, the /predict request issued.
script_run(ss, w, h1, h2, out) ==
  LET res(m, raw, status, rerun, raised, req) ==
        [messages |-> m, last_raw |-> raw, status |-> status, rerun |-> rerun,
         raised |-> raised, req |-> req]
      ping1 == st_ping(w.api_url, h1)
      ping2 == st_ping(w.api_url, h2)
      status == IF w.test_conn THEN ping2.status ELSE ping1.status
      messages == IF ss.messages = <<>> THEN <<GREETING>> ELSE ss.messages[1]
      text == w.user_text[1]
      m_user == Append(messages, Message("user", text, <<>>))
      p == st_post_predict(w.api_url, text, w.top_k, out)
  IN IF w.clear
     THEN res(st_clear(ss).messages, st_clear(ss).last_raw, <<>>, TRUE, <<>>, <<>>)
     ELSE IF ping1.raised # <<>>
     THEN res(ss.messages, ss.last_raw, <<>>, FALSE, ping1.raised, <<>>)
     ELSE IF w.test_conn /\ ping2.raised # <<>>
     THEN res(ss.messages, ss.last_raw, <<>>, FALSE, ping2.raised, <<>>)
     ELSE IF w.user_text = <<>> \/ w.user_text[1] = <<>>
     THEN res(<<messages>>, ss.last_raw, <<status>>, FALSE, <<>>, <<>>)
     ELSE IF p.exc # <<>>
     THEN IF p.exc[1] \in RequestExceptions
          THEN res(<<Append(m_user, Message("assistant", st_err(w.api_url, p.msg), <<>>))>>,
                   ss.last_raw, <<status>>, TRUE, <<>>, <<p.req>>)
          ELSE res(<<m_user>>, ss.last_raw, <<status>>, FALSE, p.exc, <<p.req>>)
     ELSE IF ~p.data.dict
     THEN res(<<m_user>>, <<p.data>>, <<status>>, FALSE, <<"AttributeError">>, <<p.req>>)
     ELSE res(<<Append(m_user, Message("assistant", format_assistant_summary(p.data),
                                       <<st_details(p.data)>>))>>,
              <<p.data>>, <<status>>, TRUE, <<>>, <<p.req>>)

\* A user event: the run it triggers and, when that run ends in st.rerun(),
\* the run that follows with no button pressed and nothing submitted.
\* An event pings up to three times (line 147, line 149, line 147 of the
\* second run) and each ping overwrites the status of the one before, so
\* only the answer h to the last of them is an input: the others leave no
\* trace in the state the event ends in.
st_event(ss, w, out, h) ==
  LET r1 == script_run(ss, w, h, h, out)
      r2 == script_run([messages |-> r1.messages, last_raw |-> r1.last_raw],
                       Widgets(FALSE, FALSE, <<>>, w.api_url, w.top_k), h, h, out)
  IN IF r1.rerun
     THEN [messages |-> r2.messages, last_raw |-> r2.last_raw, status |-> r2.status,
           raised |-> r2.raised, req |-> r1.req]
     ELSE [messages |-> r1.messages, last_raw |-> r1.last_raw, status |-> r1.status,
           raised |-> r1.raised, req |-> r1.req]

StHealth(api_url) == HealthOutcomes(api_url \o <<"/health">>)
StPredict(api_url) == PredictOutcomes(st_predict_url(api_url))

\* The session state as the script reads it.
st_session == [messages |-> <<s_messages>>, last_raw |-> s_last_raw]

\* The number of user entries of a transcript.
RECURSIVE UserCount(_)
UserCount(m) ==
  IF m = <<>> THEN 0
  ELSE (IF Head(m).role = "user" THEN 1 ELSE 0) + UserCount(Tail(m))

\* The streamlit script is not running.
StIdle ==
  /\ s_messages = <<>>
  /\ s_last_raw = <<>>
  /\ s_status = Status(FALSE, <<>>)
  /\ s_ev = NoEvent

\* The first run of a session: default widgets, the backend answering h.
StInit ==
  \E h \in StHealth(DEFAULT_URL) :
    LET r == st_event([messages |-> <<>>, last_raw |-> <<>>],
                      Widgets(FALSE, FALSE, <<>>, DEFAULT_URL, TopKDefault),
                      ConnectionError, h)
    IN /\ s_messages = r.messages[1]
       /\ s_last_raw = r.last_raw
       /\ s_status = r.status[1]
       /\ s_ev = NoEvent

\* The state an event leaves: what the page shows stays when the run broke
\* off before drawing it.
StApply(r, ev) ==
  /\ s_messages' = IF r.messages = <<>> THEN s_messages ELSE r.messages[1]
  /\ s_last_raw' = r.last_raw
  /\ s_status' = IF r.status = <<>> THEN s_status ELSE r.status[1]
  /\ s_ev' = [ev EXCEPT !.raised = r.raised, !.req = r.req,
                         !.out = IF r.req = <<>> THEN <<>> ELSE @]

\* st.chat_input submits text
StSend(text, url, k, out, h) ==
  /\ UserCount(s_messages) < MaxSends
  /\ StApply(st_event(st_session, Widgets(FALSE, FALSE, <<text>>, url, k), out, h),
             Event("send", text, url, k, <<out>>, <<h>>, <<>>, <<>>))

\* "Vider le chat" pressed
StClear(url, k, h) ==
  StApply(st_event(st_session, Widgets(TRUE, FALSE, <<>>, url, k), ConnectionError, h),
          Event("clear", <<>>, url, TopKDefault, <<>>, <<h>>, <<>>, <<>>))

\* A run that neither clears nor submits: "Tester" pressed (test_conn), or
\* a sidebar widget changed (no button pressed)
StTest(url, k, test_conn, h) ==
  StApply(st_event(st_session, Widgets(FALSE, test_conn, <<>>, url, k), ConnectionError, h),
          Event("test", <<>>, <<>>, TopKDefault, <<>>, <<h>>, <<>>, <<>>))

(***************************************************************************)
(* Specifications                                                          *)
(***************************************************************************)
\* One of the two applications is launched; the other stays as it is.
Init ==
  /\ ui \in {"gradio", "streamlit"}
  /\ GrInit
  /\ IF ui = "streamlit" THEN StInit ELSE StIdle

GradioSend ==
  \E text \in Texts, url \in Urls, k \in TopKGradio :
    \E out \in GrPredict(url) :
      ui = "gradio" /\ GrSend(text, url, k, out) /\ UNCHANGED <<ui, s_vars>>

\* on_clear and on_test read top_k only for the "Top-K" badge of the hero
\* block; the widgets' values that do not reach the state are not drawn.
GradioClear ==
  \E url \in Urls :
    \E h \in GrHealth(url) :
      ui = "gradio" /\ GrClear(url, TopKDefault, h) /\ UNCHANGED <<ui, s_vars>>

GradioTest ==
  \E url \in Urls :
    \E h \in GrHealth(url) :
      ui = "gradio" /\ GrTest(url, TopKDefault, h) /\ UNCHANGED <<ui, s_vars>>

StreamlitSend ==
  \E text \in Texts, url \in Urls, k \in TopKInts :
    \E out \in StPredict(url), h \in StHealth(url) :
      ui = "streamlit" /\ StSend(text, url, k, out, h) /\ UNCHANGED <<ui, g_vars>>

StreamlitClear ==
  \E url \in Urls :
    \E h \in StHealth(url) :
      ui = "streamlit" /\ StClear(url, TopKDefault, h) /\ UNCHANGED <<ui, g_vars>>

StreamlitTest ==
  \E url \in Urls, test_conn \in BOOLEAN :
    \E h \in StHealth(url) :
      ui = "streamlit" /\ StTest(url, TopKDefault, test_conn, h) /\ UNCHANGED <<ui, g_vars>>

Next ==
  \/ GradioSend
  \/ GradioClear
  \/ GradioTest
  \/ StreamlitSend
  \/ StreamlitClear
  \/ StreamlitTest

Spec == Init /\ [][Next]_vars

(***************************************************************************)
(* The two front-ends side by side: the same submitted texts, the same     *)
(* configured URL and Top-K, the same answers of the backend.              *)
(***************************************************************************)
PairInit ==
  /\ ui = "pair"
  /\ GrInit
  /\ StInit

\* The same Top-K set on both sliders.
TopKPairs == {kk \in TopKGradio \X TopKInts : kk[1].n = kk[2].n}

\* A submission goes to both; it is explored while both transcripts are
\* within the bound.
PairSend ==
  /\ Len(g_history_state) < MaxSends
  /\ UserCount(s_messages) < MaxSends
  /\ \E text \in Texts, url \in Urls, kk \in TopKPairs :
       \E out \in GrPredict(url) \cap StPredict(url), h \in StHealth(url) :
         /\ GrSend(text, url, kk[1], out)
         /\ StSend(text, url, kk[2], out, h)
         /\ UNCHANGED ui

PairClear ==
  \E url \in Urls :
    \E h \in GrHealth(url) \cap StHealth(url) :
      /\ GrClear(url, TopKDefault, h)
      /\ StClear(url, TopKDefault, h)
      /\ UNCHANGED ui

PairNext == PairSend \/ PairClear

SpecPair == PairInit /\ [][PairNext]_vars

(***************************************************************************)
(* Properties                                                              *)
(***************************************************************************)
\* sub occurs in s as a contiguous run of tokens
Contains(s, sub) ==
  \E i \in 0..Len(s) :
    /\ i + Len(sub) <= Len(s)
    /\ \A j \in 1..Len(sub) : s[i + j] = sub[j]

\* p is the beginning of s
IsPrefix(p, s) == Len(p) <= Len(s) /\ \A i \in 1..Len(p) : s[i] = p[i]

\* The texts the two handlers write.
IsErrorText(m) ==
  m # <<>> /\ Head(m) = "Je n'arrive pas a contacter le service de prediction.\n\n"
IsResultText(m) == m # <<>> /\ Head(m) = "**Resultat :** "

\* The last event was a send that issued a /predict request which ...
Sent(ev) == ev.op = "send" /\ ev.req # <<>> /\ ev.out # <<>>
\* ... failed in the network (no response arrived)
NetworkFailure(ev) ==
  Sent(ev) /\ ev.out[1].exc # <<>> /\ ev.out[1].exc[1] \in {"ConnectionError", "Timeout"}
\* ... failed: requests raised, or the response carries an error status
PredictFailed(ev) ==
  Sent(ev) /\ (ev.out[1].exc # <<>> \/ ev.out[1].status >= 400)
\* ... was answered 200 with a JSON object
PredictSucceeded(ev) ==
  Sent(ev) /\ ev.out[1].exc = <<>> /\ ev.out[1].status = 200 /\ ev.out[1].body.dict

\* The assistant text of the last pair of gradio's chat, the last entry of
\* streamlit's.
GrLastReply == g_chatbot[Len(g_chatbot)][2]
StLast == s_messages[Len(s_messages)]

\* C1: in both front-ends, when the /predict call of a send fails in the
\* network, no exception escapes the handler and the transcript ends with
\* an assistant error message that holds the configured URL (as typed) and
\* the text of the error.
C1_NetworkFailureShown ==
  /\ NetworkFailure(g_ev) =>
        /\ g_ev.raised = <<>>
        /\ g_chatbot # <<>>
        /\ IsErrorText(GrLastReply)
        /\ Contains(GrLastReply, g_ev.url)
        /\ Contains(GrLastReply, g_ev.out[1].msg)
  /\ NetworkFailure(s_ev) =>
        /\ s_ev.raised = <<>>
        /\ StLast.role = "assistant"
        /\ IsErrorText(StLast.content)
        /\ Contains(StLast.content, s_ev.url)
        /\ Contains(StLast.content, s_ev.out[1].msg)

\* A network failure with a URL that normalisation would change.
C1_Witness ==
  /\ NetworkFailure(g_ev)
  /\ g_ev.url = <<WS>> \o DEFAULT_URL \o <<SLASH>>
  /\ IsErrorText(GrLastReply)

\* C2: a send whose /predict call fails keeps every earlier entry of the
\* transcript, in place and unchanged: the old transcript is a prefix of the
\* new one.
C2_FailedSendKeepsHistory ==
  [][ /\ PredictFailed(g_ev') =>
            /\ IsPrefix(g_chatbot, g_chatbot')
            /\ IsPrefix(g_history_state, g_history_state')
      /\ PredictFailed(s_ev') => IsPrefix(s_messages, s_messages') ]_vars

\* A failed send after an earlier exchange.
C2_Witness ==
  /\ PredictFailed(g_ev)
  /\ Len(g_chatbot) >= 2
  /\ IsErrorText(GrLastReply)

\* C3 as stated: clear leaves the transcript empty and last_raw null, in
\* both front-ends.
C3_ClearEmptiesTranscript ==
  /\ g_ev.op = "clear" => g_chatbot = <<>> /\ g_last_raw = <<>>
  /\ s_ev.op = "clear" => s_messages = <<>> /\ s_last_raw = <<>>

\* C3 amended: clear leaves last_raw null and the transcript as a new
\* session has it: empty in gradio, the greeting alone in streamlit.
C3_ClearResets ==
  /\ g_ev.op = "clear" =>
        g_chatbot = <<>> /\ g_history_state = <<>> /\ g_last_raw = <<>>
  /\ s_ev.op = "clear" =>
        /\ Len(s_messages) = 1
        /\ s_messages[1].role = "assistant"
        /\ ~IsErrorText(s_messages[1].content)
        /\ ~IsResultText(s_messages[1].content)
        /\ s_last_raw = <<>>

\* streamlit, just cleared.
C3_Witness == s_ev.op = "clear" /\ Len(s_messages) = 1 /\ s_last_raw = <<>>

\* The /health call answered 200.
Answered200(h) == h.exc = <<>> /\ h.status = 200

\* C4 as stated: the status shown after clearing is the status shown before.
C4_ClearPreservesStatus ==
  [][ /\ g_ev'.op = "clear" => g_status' = g_status
      /\ s_ev'.op = "clear" => s_status' = s_status ]_vars

\* C4 amended: the status shown after clearing is that of a health check
\* made at the moment of clearing: positive, with "Connecte", exactly when
\* /health then answers 200.
C4_ClearShowsFreshStatus ==
  /\ g_ev.op = "clear" =>
        /\ g_status.ok <=> Answered200(g_ev.health[1])
        /\ g_status.ok <=> g_status.msg = <<"Connecte">>
  /\ s_ev.op = "clear" =>
        /\ s_status.ok <=> Answered200(s_ev.health[1])
        /\ s_status.ok <=> s_status.msg = <<"Connecte">>

\* gradio cleared while the backend is up.
C4_Witness == g_ev.op = "clear" /\ g_status.ok /\ Answered200(g_ev.health[1])

\* C5: ping's status is positive exactly when GET /health completed with
\* status 200; any other status, and any exception of the request, gives a
\* negative status, and no exception escapes ping.  (Every streamlit event
\* ends with a ping; gradio pings on test and clear.)
C5_PingPositiveIff200 ==
  /\ g_ev.op \in {"test", "clear"} =>
        /\ g_ev.raised = <<>>
        /\ g_status.ok <=> Answered200(g_ev.health[1])
  /\ s_ev.op \in {"test", "clear", "send"} =>
        /\ s_ev.op # "send" => s_ev.raised = <<>>
        /\ s_status.ok <=> Answered200(s_ev.health[1])

\* A test whose request raised, shown as unavailable.
C5_Witness ==
  /\ g_ev.op = "test"
  /\ g_ev.health[1].exc # <<>>
  /\ ~g_status.ok
  /\ g_ev.raised = <<>>

\* The /predict call was answered 200 with a valid body: primary_disease a
\* string, found_symptoms a list or null.
ValidAnswer(ev) ==
  /\ PredictSucceeded(ev)
  /\ ev.out[1].body.primary_disease # <<>>
  /\ ev.out[1].body.found_symptoms.t \in {"list", "null"}

\* items joined with ", ", built from the right.
RECURSIVE CommaJoined(_)
CommaJoined(items) ==
  IF items = <<>> THEN <<>>
  ELSE IF Len(items) = 1 THEN items[1]
  ELSE CommaJoined(SubSeq(items, 1, Len(items) - 1)) \o <<", ">> \o items[Len(items)]

EndsWith(s, e) ==
  Len(e) <= Len(s) /\ SubSeq(s, Len(s) - Len(e) + 1, Len(s)) = e

\* The result text m shows body b: the disease, then the symptoms joined
\* with ", " in the response's order or, for none, the em-dash.
ResultShows(m, b) ==
  /\ IsResultText(m)
  /\ Contains(m, b.primary_disease[1])
  /\ IF b.found_symptoms.t = "list" /\ b.found_symptoms.v # <<>>
     THEN EndsWith(m, CommaJoined(b.found_symptoms.v))
     ELSE EndsWith(m, EmDash)

\* C6: for a valid predict response the assistant message added holds
\* primary_disease and found_symptoms joined with ", " in response order,
\* and the em-dash in their place when found_symptoms is empty or null.
C6_SummaryShowsResponse ==
  /\ ValidAnswer(g_ev) => g_chatbot # <<>> /\ ResultShows(GrLastReply, g_ev.out[1].body)
  /\ ValidAnswer(s_ev) =>
        StLast.role = "assistant" /\ ResultShows(StLast.content, s_ev.out[1].body)

\* A valid response with no symptom found, shown by gradio.
C6_Witness ==
  /\ ValidAnswer(g_ev)
  /\ g_ev.out[1].body.found_symptoms.t = "list"
  /\ g_ev.out[1].body.found_symptoms.v = <<>>
  /\ IsResultText(GrLastReply)

\* C7: a send whose /predict call fails (requests raises, or raise_for_status
\* turns the status into an error) adds exactly one assistant message, the
\* error message, and no exception escapes the handler.
C7_FailureBecomesOneErrorMessage ==
  [][ /\ PredictFailed(g_ev') =>
            /\ g_ev'.raised = <<>>
            /\ Len(g_chatbot') = Len(g_chatbot) + 1
            /\ IsErrorText(GrLastReply')
      /\ PredictFailed(s_ev') =>
            /\ s_ev'.raised = <<>>
            /\ Len(s_messages') = Len(s_messages) + 2
            /\ s_messages'[Len(s_messages) + 1].role = "user"
            /\ StLast'.role = "assistant"
            /\ IsErrorText(StLast'.content) ]_vars

\* An error status (no exception of the network) shown as an error message.
C7_Witness ==
  /\ PredictFailed(g_ev)
  /\ g_ev.out[1].exc = <<>>
  /\ IsErrorText(GrLastReply)

\* The transcript holds an error message.
GrHasError == \E i \in 1..Len(g_chatbot) : IsErrorText(g_chatbot[i][2])
StHasError == \E i \in 1..Len(s_messages) : IsErrorText(s_messages[i].content)

\* C8: with an error message in the transcript, a send that the backend
\* answers successfully adds a result message, not an error message, and
\* leaves the transcript before it, the error message included, as it was.
C8_RetryAfterError ==
  [][ /\ (PredictSucceeded(g_ev') /\ GrHasError) =>
            /\ Len(g_chatbot') = Len(g_chatbot) + 1
            /\ IsPrefix(g_chatbot, g_chatbot')
            /\ IsResultText(GrLastReply')
      /\ (PredictSucceeded(s_ev') /\ StHasError) =>
            /\ Len(s_messages') = Len(s_messages) + 2
            /\ IsPrefix(s_messages, s_messages')
            /\ StLast'.role = "assistant"
            /\ IsResultText(StLast'.content) ]_vars

\* An error message followed by a result.
C8_Witness ==
  /\ PredictSucceeded(g_ev)
  /\ Len(g_chatbot) >= 2
  /\ IsErrorText(g_chatbot[Len(g_chatbot) - 1][2])
  /\ IsResultText(GrLastReply)

\* The request of event ev is a POST to base/predict with the JSON body
\* {text, top_k}, top_k the configured value as an integer.
PredictRequest(ev, base, text) ==
  LET rq == ev.req[1]
  IN /\ rq.method = "POST"
     /\ rq.url = base \o <<"/predict">>
     /\ Len(rq.json) = 1
     /\ DOMAIN rq.json[1] = {"text", "top_k"}
     /\ rq.json[1].text = text
     /\ rq.json[1].top_k = [n |-> ev.top_k.n, float |-> FALSE]

\* C9 as stated: every predict request is a POST to {base_url}/predict
\* (base_url the configured URL, with or without its padding) with the body
\* {text: the text the user submitted, top_k: the configured Top-K, an integer}.
C9_RequestCarriesSubmittedText ==
  /\ Sent(g_ev) =>
        \/ PredictRequest(g_ev, g_ev.url, g_ev.text)
        \/ PredictRequest(g_ev, rstrip_slash(strip(g_ev.url)), g_ev.text)
  /\ Sent(s_ev) =>
        \/ PredictRequest(s_ev, s_ev.url, s_ev.text)
        \/ PredictRequest(s_ev, rstrip_slash(strip(s_ev.url)), s_ev.text)

\* C9 amended: gradio posts the submitted text stripped of the blanks
\* around it, to the configured URL stripped of the blanks around it and of
\* its trailing slashes; streamlit posts the text and to the URL as they are.
C9_RequestBody ==
  /\ Sent(g_ev) => PredictRequest(g_ev, rstrip_slash(strip(g_ev.url)), strip(g_ev.text))
  /\ Sent(s_ev) => PredictRequest(s_ev, s_ev.url, s_ev.text)

\* gradio posted a text other than the submitted one, with a float Top-K.
C9_Witness ==
  /\ Sent(g_ev)
  /\ g_ev.req[1].json[1].text # g_ev.text
  /\ g_ev.top_k.float

\* The assistant texts the sends added: gradio's replies, streamlit's
\* assistant entries after the greeting.
GrReplies == [i \in 1..Len(g_chatbot) |-> g_chatbot[i][2]]
IsAssistant(m) == m.role = "assistant"
StReplies ==
  LET a == SelectSeq(Tail(s_messages), IsAssistant)
  IN [i \in 1..Len(a) |-> a[i].content]

\* C10: side by side, the two front-ends issue the same /predict request
\* (or none) for each submission and add the same assistant texts.
C10_Interchangeable ==
  ui = "pair" =>
    /\ g_ev.op = "send" /\ s_ev.op = "send" => g_ev.req = s_ev.req
    /\ GrReplies = StReplies

\* The last event was a send of a text that is empty once the blanks around
\* it are removed.
BlankSend(ev) == ev.op = "send" /\ strip(ev.text) = <<>>

\* The last event was a send that the handler took for empty: it issued no
\* /predict request.
EmptySend(ev) == ev.op = "send" /\ ev.req = <<>>

\* C11: last_raw follows the successful predicts: a send answered 200 with a
\* JSON object leaves it equal to that body, clear leaves it null, and a
\* failed send or an empty send leaves it as it was.  From the null of a
\* new session, it is then always null (no successful predict since the
\* last clear) or the body of the most recent successful predict since.
C11_LastRawIsLastSuccess ==
  [][ /\ PredictSucceeded(g_ev') => g_last_raw' = <<g_ev'.out[1].body>>
      /\ g_ev'.op = "clear" /\ g_ev'.raised = <<>> => g_last_raw' = <<>>
      /\ (PredictFailed(g_ev') \/ EmptySend(g_ev')) => g_last_raw' = g_last_raw
      /\ PredictSucceeded(s_ev') => s_last_raw' = <<s_ev'.out[1].body>>
      /\ s_ev'.op = "clear" /\ s_ev'.raised = <<>> => s_last_raw' = <<>>
      /\ (PredictFailed(s_ev') \/ EmptySend(s_ev')) => s_last_raw' = s_last_raw ]_vars

\* C12: in gradio, an on_send call with a text that is not blank, when it
\* returns (success or handled failure), returns the history it was given
\* extended by exactly one pair (the stripped text, a result or an error
\* text), and no pair of the returned history has the placeholder as its
\* assistant text.
C12_OnePairNoPlaceholder ==
  [][ (g_ev'.op = "send" /\ ~BlankSend(g_ev') /\ g_ev'.raised = <<>>) =>
        /\ Len(g_history_state') = Len(g_history_state) + 1
        /\ IsPrefix(g_history_state, g_history_state')
        /\ g_history_state'[Len(g_history_state')][1] = strip(g_ev'.text)
        /\ \/ IsResultText(g_history_state'[Len(g_history_state')][2])
           \/ IsErrorText(g_history_state'[Len(g_history_state')][2])
        /\ \A i \in 1..Len(g_history_state') : g_history_state'[i][2] # Ellipsis
        /\ g_chatbot' = g_history_state' ]_vars

\* A handled failure after a success: two pairs, neither with the
\* placeholder, the second under the stripped text.
C12_Witness ==
  /\ g_ev.op = "send" /\ g_ev.raised = <<>>
  /\ g_ev.text # strip(g_ev.text) /\ strip(g_ev.text) # <<>>
  /\ Len(g_history_state) = 2
  /\ IsResultText(g_history_state[1][2])
  /\ g_history_state[2][1] = strip(g_ev.text)
  /\ IsErrorText(g_history_state[2][2])
  /\ g_history_state[2][2] # Ellipsis

\* C13: a send of an empty or whitespace-only text issues no /predict
\* request and leaves the transcript exactly as it was, in both front-ends.
C13_BlankSendDoesNothing ==
  [][ /\ BlankSend(g_ev') =>
            /\ g_ev'.req = <<>>
            /\ g_chatbot' = g_chatbot
            /\ g_history_state' = g_history_state
      /\ BlankSend(s_ev') =>
            /\ s_ev'.req = <<>>
            /\ s_messages' = s_messages ]_vars

====
